---- MODULE Spec2Model ----
(***************************************************************************)
(* A model of lestrrat-go/gettext: the .po parser (parseCtx), the catalog  *)
(* (Po) with its lookups, and the Locale that maps domains to catalogs.    *)
(*                                                                         *)
(* A Go string or []byte is a sequence of one-character strings, so that   *)
(* offsets, lengths, prefixes and quoting are computed as the code does.   *)
(* A Go map is a function whose domain is the set of keys present.         *)
(***************************************************************************)
EXTENDS Integers, Sequences, FiniteSets, TLC

VARIABLES
    p,        \* the parseCtx of the running Parse call
    pc,       \* where the Parse call is: "Run", "done" or "panic" ("idle": none)
    ret,      \* what Parse returned: [nilpo, po, err]
    call,     \* the last lookup made on the returned catalog
    commits,  \* history: the entries pop stored, in order, with their context
    src,      \* Locale.src: the files of the Source, by name
    domains,  \* Locale.domains
    loading,  \* the domain a running AddDomain is loading, "" if none
    lcall,    \* the last call made on the Locale
    mu,       \* Locale.mu: the readers holding it, those blocked, the writer
    rd,       \* the goroutines that make lookups on the Locale, each with its position
    published,\* history: the catalogs Parse has returned
    lset,     \* the LocaleSet: [domains, locales]
    scall     \* the last call made on the LocaleSet

vars == <<p, pc, ret, call, commits, src, domains, loading, lcall, mu, rd, published,
          lset, scall>>

---------------------------------------------------------------------------
(* Characters with a meaning to the parser *)
NL == "\n"
QT == "\""
BS == "\\"
TAB == "\t"
CR == "\r"

---------------------------------------------------------------------------
(* strings, bytes, strconv: the library functions the parser calls *)

\* s[k:]
Drop(s, k) == SubSeq(s, k + 1, Len(s))

\* s[:k]
Take(s, k) == SubSeq(s, 1, k)

\* bytes.IndexByte / strings.Index with a one-byte separator: 0-based, -1 if absent
IndexByte(s, c) ==
    IF \E i \in 1..Len(s) : s[i] = c
    THEN (CHOOSE i \in 1..Len(s) : s[i] = c /\ \A j \in 1..(i - 1) : s[j] # c) - 1
    ELSE -1

HasPrefix(s, pre) == Len(s) >= Len(pre) /\ Take(s, Len(pre)) = pre

HasSuffix(s, suf) == Len(s) >= Len(suf) /\ Drop(s, Len(s) - Len(suf)) = suf

IsSpace(c) == c \in {" ", TAB, NL, CR}

\* the least element of a non-empty set of integers
Least(S) == CHOOSE i \in S : \A j \in S : i <= j

\* the greatest element of a non-empty set of integers
Greatest(S) == CHOOSE i \in S : \A j \in S : i >= j

TrimLeft(s) ==
    LET keep == {i \in 1..Len(s) : ~IsSpace(s[i])}
    IN  IF keep = {} THEN <<>> ELSE Drop(s, Least(keep) - 1)

TrimRight(s) ==
    LET keep == {i \in 1..Len(s) : ~IsSpace(s[i])}
    IN  IF keep = {} THEN <<>> ELSE Take(s, Greatest(keep))

TrimSpace(s) == TrimRight(TrimLeft(s))

\* the body of a double-quoted Go literal, escapes decoded; a bare quote, a
\* newline, a trailing backslash or an unknown escape is a syntax error
RECURSIVE UnquoteBody(_)
UnquoteBody(b) ==
    LET special == {i \in 1..Len(b) : b[i] \in {BS, QT, NL}}
        i == Least(special)
        c == CASE b[i + 1] = "n" -> NL
               [] b[i + 1] = "t" -> TAB
               [] b[i + 1] = "r" -> CR
               [] OTHER -> b[i + 1]
        r == UnquoteBody(Drop(b, i + 1))
    IN  IF special = {} THEN [ok |-> TRUE, v |-> b]
        ELSE IF b[i] # BS THEN [ok |-> FALSE, v |-> <<>>]
        ELSE IF i = Len(b) \/ b[i + 1] \notin {"n", "t", "r", BS, QT}
        THEN [ok |-> FALSE, v |-> <<>>]
        ELSE IF ~r.ok THEN r
        ELSE [ok |-> TRUE, v |-> Take(b, i - 1) \o <<c>> \o r.v]

\* strconv.Unquote: [ok, v]
Unquote(s) ==
    IF Len(s) < 2 \/ s[1] # s[Len(s)] THEN [ok |-> FALSE, v |-> <<>>]
    ELSE LET body == SubSeq(s, 2, Len(s) - 1)
         IN  CASE s[1] = QT -> UnquoteBody(body)
               [] s[1] = "`" ->
                    IF \E i \in 1..Len(body) : body[i] = "`"
                    THEN [ok |-> FALSE, v |-> <<>>]
                    ELSE [ok |-> TRUE, v |-> SelectSeq(body, LAMBDA c : c # CR)]
               [] s[1] = "'" ->
                    IF Len(body) = 1 /\ body[1] \notin {BS, "'", NL}
                    THEN [ok |-> TRUE, v |-> body]
                    ELSE [ok |-> FALSE, v |-> <<>>]
               [] OTHER -> [ok |-> FALSE, v |-> <<>>]

Digits == <<"0", "1", "2", "3", "4", "5", "6", "7", "8", "9">>

IsDigit(c) == \E d \in 1..Len(Digits) : Digits[d] = c

DigitVal(c) == (CHOOSE d \in 1..Len(Digits) : Digits[d] = c) - 1

RECURSIVE DigitsVal(_)
DigitsVal(s) ==
    IF s = <<>> THEN 0
    ELSE DigitsVal(Take(s, Len(s) - 1)) * 10 + DigitVal(s[Len(s)])

\* strconv.Atoi: [ok, v], v = 0 on a syntax error
Atoi(s) ==
    LET signed == s # <<>> /\ s[1] \in {"+", "-"}
        ds == IF signed THEN Tail(s) ELSE s
    IN  IF ds = <<>> \/ \E i \in 1..Len(ds) : ~IsDigit(ds[i])
        THEN [ok |-> FALSE, v |-> 0]
        ELSE [ok |-> TRUE,
              v |-> IF signed /\ s[1] = "-" THEN 0 - DigitsVal(ds) ELSE DigitsVal(ds)]

\* strings.Split(s, sep) with a one-byte separator
RECURSIVE Split(_, _)
Split(s, sep) ==
    LET i == IndexByte(s, sep)
    IN  IF i = -1 THEN <<s>> ELSE <<Take(s, i)>> \o Split(Drop(s, i + 1), sep)

\* strings.SplitN(s, sep, 2)
SplitN2(s, sep) ==
    LET i == IndexByte(s, sep)
    IN  IF i = -1 THEN <<s>> ELSE <<Take(s, i), Drop(s, i + 1)>>

---------------------------------------------------------------------------
(* textlist and translation *)

\* textlist.Set that always allocates idx+1 slots and copies what fits
TextSetTruncating(l, idx, s) ==
    IF idx < 0 THEN [panic |-> TRUE, v |-> l]
    ELSE LET newl == [k \in 1..(idx + 1) |-> IF k <= Len(l) THEN l[k] ELSE <<>>]
         IN  [panic |-> FALSE, v |-> [newl EXCEPT ![idx + 1] = s]]

\* textlist.Set: grows the list to idx+1 slots, the new ones empty; a negative
\* index is an index out of range (panic)
TextSet(l, idx, s) ==
    IF idx < 0 THEN [panic |-> TRUE, v |-> l]
    ELSE LET newl == IF Len(l) <= idx
                     THEN l \o [k \in 1..(idx + 1 - Len(l)) |-> <<>>]
                     ELSE l
         IN  [panic |-> FALSE, v |-> [newl EXCEPT ![idx + 1] = s]]

\* textlist.Get: ("", false) when len(l) <= idx; l[idx] otherwise, which is an
\* index out of range (panic) for a negative idx
TextGet(l, idx) ==
    IF Len(l) <= idx THEN [panic |-> FALSE, ok |-> FALSE, v |-> <<>>]
    ELSE IF idx < 0 THEN [panic |-> TRUE, ok |-> FALSE, v |-> <<>>]
    ELSE [panic |-> FALSE, ok |-> TRUE, v |-> l[idx + 1]]

newTranslation == [id |-> <<>>, PluralID |-> <<>>, Trs |-> <<>>]

\* a map with no key
EmptyMap == [k \in {} |-> <<>>]

\* m[k] = v
Put(m, k, v) == [x \in (DOMAIN m) \cup {k} |-> IF x = k THEN v ELSE m[x]]

NewPo ==
    [Language |-> <<>>, PluralForms |-> <<>>, nplurals |-> 0, plural |-> <<>>,
     Translations |-> EmptyMap, Contexts |-> EmptyMap]

---------------------------------------------------------------------------
(* net/textproto: ReadMIMEHeader on the accumulated header text.  Lines are *)
(* read up to the first empty one; each must hold a colon; the key is the   *)
(* text before it and the value the text after it, trimmed.  The buffers    *)
(* of this model hold no folded (indented) header lines and write their     *)
(* keys in canonical case.                                                  *)

TrimBlank(s) ==
    LET keep == {i \in 1..Len(s) : s[i] \notin {" ", TAB}}
    IN  IF keep = {} THEN <<>> ELSE SubSeq(s, Least(keep), Greatest(keep))

RECURSIVE MIMELines(_)
MIMELines(ls) ==
    IF ls = <<>> \/ Head(ls) = <<>> THEN [ok |-> TRUE, h |-> <<>>]
    ELSE LET line == TrimBlank(Head(ls))
             i == IndexByte(line, ":")
             r == MIMELines(Tail(ls))
         IN  IF i = -1 THEN [ok |-> FALSE, h |-> <<>>]
             ELSE IF ~r.ok THEN r
             ELSE [ok |-> TRUE,
                   h |-> <<[key |-> Take(line, i), value |-> TrimBlank(Drop(line, i + 1))]>>
                         \o r.h]

ReadMIMEHeader(raw) ==
    IF raw # <<>> /\ Head(raw) \in {" ", TAB} THEN [ok |-> FALSE, h |-> <<>>]
    ELSE MIMELines(Split(raw, NL))

\* MIMEHeader.Get: the first value stored under the key, "" if none
MIMEGet(h, key) ==
    IF \E i \in 1..Len(h) : h[i].key = key
    THEN h[CHOOSE i \in 1..Len(h) : h[i].key = key /\ \A j \in 1..(i - 1) : h[j].key # key].value
    ELSE <<>>

---------------------------------------------------------------------------
(* parseCtx *)

Kmsgid == <<"m", "s", "g", "i", "d">>
KmsgidPlural == Kmsgid \o <<"_", "p", "l", "u", "r", "a", "l">>
Kmsgstr == <<"m", "s", "g", "s", "t", "r">>
Kmsgctxt == <<"m", "s", "g", "c", "t", "x", "t">>
KLanguage == <<"L", "a", "n", "g", "u", "a", "g", "e">>
KPluralForms == <<"P", "l", "u", "r", "a", "l", "-", "F", "o", "r", "m", "s">>
Knplurals == <<"n", "p", "l", "u", "r", "a", "l", "s">>
Kplural == <<"p", "l", "u", "r", "a", "l">>

\* the parseCtx Parse starts Run with
NewParseCtx(data, strict) ==
    [buf |-> data, pos |-> 0, rawHeaders |-> <<>>, strict |-> strict,
     curTranslation |-> newTranslation, curContext |-> <<>>, po |-> NewPo]

HasNext(c) == c.pos < Len(c.buf)

\* Line: [pos, line], the new read position and the line returned
Line(c) ==
    LET oldpos == c.pos
        i == IndexByte(Drop(c.buf, oldpos), NL)
    IN  IF i = oldpos THEN [pos |-> c.pos + 1, line |-> <<>>]
        ELSE IF i = -1 THEN [pos |-> Len(c.buf), line |-> Drop(c.buf, oldpos)]
        ELSE [pos |-> c.pos + i + 1, line |-> SubSeq(c.buf, oldpos + 1, oldpos + i)]

\* pop storing every entry in the default scope, whatever the pending context
popNoContext(c) ==
    LET curT == c.curTranslation
        c1 == [c EXCEPT !.curTranslation = newTranslation]
    IN  IF curT.id = <<>> THEN c1
        ELSE [c1 EXCEPT !.curContext = <<>>,
                        !.po.Translations = Put(@, curT.id, curT)]

\* pop storing the pending entry also when its id is empty
popStoringEmpty(c) ==
    LET curT == c.curTranslation
        curC == c.curContext
        c1 == [c EXCEPT !.curTranslation = newTranslation]
    IN  IF curC = <<>>
        THEN [c1 EXCEPT !.curContext = <<>>,
                        !.po.Translations = Put(@, curT.id, curT)]
        ELSE [c1 EXCEPT !.curContext = <<>>,
                        !.po.Contexts =
                            Put(@, curC,
                                Put(IF curC \in DOMAIN @ THEN @[curC] ELSE EmptyMap,
                                    curT.id, curT))]

pop(c) ==
    LET curT == c.curTranslation
        curC == c.curContext
        c1 == [c EXCEPT !.curTranslation = newTranslation]
    IN  IF curT.id = <<>> THEN c1
        ELSE IF curC = <<>>
        THEN [c1 EXCEPT !.curContext = <<>>,
                        !.po.Translations = Put(@, curT.id, curT)]
        ELSE [c1 EXCEPT !.curContext = <<>>,
                        !.po.Contexts =
                            Put(@, curC,
                                Put(IF curC \in DOMAIN @ THEN @[curC] ELSE EmptyMap,
                                    curT.id, curT))]

\* the outcome of handling one line: the context after it, whether the
\* handler returned an error, whether it panicked
Ok(c) == [c |-> c, err |-> FALSE, panic |-> FALSE]
Err(c) == [c |-> c, err |-> TRUE, panic |-> FALSE]
Panic(c) == [c |-> c, err |-> FALSE, panic |-> TRUE]

parseContext(c, l) ==
    LET c1 == pop(c)
        u == Unquote(TrimSpace(l))
    IN  IF ~u.ok THEN Err(c1) ELSE Ok([c1 EXCEPT !.curContext = u.v])

parsePluralID(c, l) ==
    LET u == Unquote(TrimSpace(l))
    IN  IF ~u.ok THEN Err(c) ELSE Ok([c EXCEPT !.curTranslation.PluralID = u.v])

parseID(c, s) ==
    LET c1 == pop(c)
        u == Unquote(TrimSpace(s))
    IN  IF ~u.ok THEN Err(c1) ELSE Ok([c1 EXCEPT !.curTranslation.id = u.v])

parseMessage(c, l0) ==
    LET l == TrimSpace(l0)
    IN  IF ~HasPrefix(l, <<"[">>)
        THEN LET u == Unquote(l)
                 s == TextSet(c.curTranslation.Trs, 0, u.v)
             IN  IF ~u.ok THEN Err(c) ELSE Ok([c EXCEPT !.curTranslation.Trs = s.v])
        ELSE LET idx == IndexByte(l, "]")
                 a == Atoi(SubSeq(l, 2, idx))
                 u == Unquote(TrimSpace(Drop(l, idx + 1)))
                 s == TextSet(c.curTranslation.Trs, a.v, u.v)
             IN  IF idx = -1 THEN Err(c)
                 ELSE IF ~a.ok THEN Err(c)
                 ELSE IF ~u.ok THEN Err(c)
                 ELSE IF s.panic THEN Panic(c)
                 ELSE Ok([c EXCEPT !.curTranslation.Trs = s.v])

\* parseString with the header branch dropping the text
parseStringNoHeader(c, l) ==
    IF c.curTranslation.id # <<>>
    THEN LET uq == Unquote(l)
             lastidx == Len(c.curTranslation.Trs) - 1
             g == TextGet(c.curTranslation.Trs, lastidx)
             s == TextSet(c.curTranslation.Trs, lastidx, g.v \o uq.v)
         IN  IF ~uq.ok THEN Err(c)
             ELSE IF g.panic THEN Panic(c)
             ELSE IF g.ok THEN Ok([c EXCEPT !.curTranslation.Trs = s.v])
             ELSE Ok(c)
    ELSE LET h == Unquote(TrimSpace(l))
         IN  IF ~h.ok THEN Err(c) ELSE Ok(c)

parseString(c, l) ==
    IF c.curTranslation.id # <<>>
    THEN LET uq == Unquote(l)
             lastidx == Len(c.curTranslation.Trs) - 1
             g == TextGet(c.curTranslation.Trs, lastidx)
             s == TextSet(c.curTranslation.Trs, lastidx, g.v \o uq.v)
         IN  IF ~uq.ok THEN Err(c)
             ELSE IF g.panic THEN Panic(c)
             ELSE IF g.ok THEN Ok([c EXCEPT !.curTranslation.Trs = s.v])
             ELSE Ok(c)
    ELSE LET h == Unquote(TrimSpace(l))
         IN  IF ~h.ok THEN Err(c) ELSE Ok([c EXCEPT !.rawHeaders = @ \o h.v])

\* the Plural-Forms loop of parseHeaders over the ";"-separated fields
RECURSIVE PluralFields(_, _)
PluralFields(po, pfs) ==
    IF pfs = <<>> THEN po
    ELSE LET vs == SplitN2(Head(pfs), "=")
             key == TrimSpace(vs[1])
             po1 == IF Len(vs) # 2 THEN po
                    ELSE IF key = Knplurals THEN [po EXCEPT !.nplurals = Atoi(vs[2]).v]
                    ELSE IF key = Kplural THEN [po EXCEPT !.plural = vs[2]]
                    ELSE po
         IN  PluralFields(po1, Tail(pfs))

parseHeaders(c) ==
    LET c1 == [c EXCEPT !.rawHeaders = @ \o <<NL, NL>>]
        m == ReadMIMEHeader(c1.rawHeaders)
        c2 == [c1 EXCEPT !.po.Language = MIMEGet(m.h, KLanguage),
                         !.po.PluralForms = MIMEGet(m.h, KPluralForms)]
    IN  IF ~m.ok THEN Err(c1)
        ELSE IF c2.po.PluralForms = <<>> THEN Ok(c2)
        ELSE Ok([c2 EXCEPT !.po = PluralFields(@, Split(c2.po.PluralForms, ";"))])

\* which case of Run's switch takes the trimmed line
Kind(l) ==
    CASE HasPrefix(l, Kmsgctxt) -> "msgctxt"
      [] HasPrefix(l, KmsgidPlural) -> "msgid_plural"
      [] HasPrefix(l, Kmsgid) -> "msgid"
      [] HasPrefix(l, Kmsgstr) -> "msgstr"
      [] HasPrefix(l, <<QT>>) /\ HasSuffix(l, <<QT>>) -> "string"
      [] OTHER -> "other"

\* one iteration of Run's loop: read a line and dispatch it
RunLine(c) ==
    LET ln == Line(c)
        c1 == [c EXCEPT !.pos = ln.pos]
        l == TrimSpace(ln.line)
        k == Kind(l)
    IN  CASE k = "msgctxt" -> parseContext(c1, Drop(l, Len(Kmsgctxt)))
          [] k = "msgid_plural" -> parsePluralID(c1, Drop(l, Len(KmsgidPlural)))
          [] k = "msgid" -> parseID(c1, Drop(l, Len(Kmsgid)))
          [] k = "msgstr" -> parseMessage(c1, Drop(l, Len(Kmsgstr)))
          [] k = "string" -> parseString(c1, l)
          [] OTHER -> Ok(c1)

\* what Run does once the loop has ended: the last pop, then the headers
RunEnd(c) ==
    LET h == parseHeaders(pop(c))
    IN  IF h.err /\ c.strict THEN Err(h.c) ELSE Ok(h.c)

---------------------------------------------------------------------------
(* fmt.Sprintf.  An argument is an int, [t |-> "int", i |-> 5], or a slice  *)
(* of arguments, [t |-> "slice", s |-> <<...>>] (a []interface{} passed as  *)
(* one argument).  The strings of this model use the verbs %d, %s, %v and   *)
(* %%.  An error marker of fmt ("%!d(MISSING)", "%!(EXTRA ...") is built    *)
(* from multi-character elements; all other output is one byte per element. *)

IntArg(i) == [t |-> "int", i |-> i]
SliceArg(s) == [t |-> "slice", s |-> s]

RECURSIVE IntStr(_)
IntStr(i) ==
    IF i < 0 THEN <<"-">> \o IntStr(0 - i)
    ELSE IF i < 10 THEN <<Digits[i + 1]>>
    ELSE IntStr(i \div 10) \o <<Digits[(i % 10) + 1]>>

\* the Go type name %!verb(type=value) and EXTRA print
TypeName(a) == IF a.t = "int" THEN "int" ELSE "[]interface {}"

\* one argument under one verb; the elements of a slice, space-separated
RECURSIVE Render(_, _)
RECURSIVE RenderElems(_, _)
RenderElems(es, verb) ==
    IF es = <<>> THEN <<>>
    ELSE IF Len(es) = 1 THEN Render(es[1], verb)
    ELSE Render(es[1], verb) \o <<" ">> \o RenderElems(Tail(es), verb)

Render(a, verb) ==
    IF a.t = "int"
    THEN IF verb \in {"d", "v"} THEN IntStr(a.i)
         ELSE <<"%!", verb, "(int=">> \o IntStr(a.i) \o <<")">>
    ELSE <<"[">> \o RenderElems(a.s, verb) \o <<"]">>

\* the arguments no verb consumed
RECURSIVE ExtraList(_)
ExtraList(as) ==
    IF as = <<>> THEN <<>>
    ELSE <<TypeName(as[1]), "=">> \o Render(as[1], "v")
         \o (IF Len(as) = 1 THEN <<>> ELSE <<", ">> \o ExtraList(Tail(as)))

\* what Sprintf appends for the arguments left over
Extra(as) == IF as = <<>> THEN <<>> ELSE <<"%!(EXTRA ">> \o ExtraList(as) \o <<")">>

RECURSIVE Sprintf(_, _)
Sprintf(str, as) ==
    LET i == IndexByte(str, "%")
        pre == Take(str, i)
        verb == str[i + 2]
        rest == Drop(str, i + 2)
    IN  IF i = -1 THEN str \o Extra(as)
        ELSE IF i + 1 = Len(str) THEN pre \o <<"%!(NOVERB)">> \o Extra(as)
        ELSE IF verb = "%" THEN pre \o <<"%">> \o Sprintf(rest, as)
        ELSE IF as = <<>> THEN pre \o <<"%!", verb, "(MISSING)">> \o Sprintf(rest, as)
        ELSE pre \o Render(Head(as), verb) \o Sprintf(rest, Tail(as))

\* format(str, vars...)
format(str, as) == Sprintf(str, as)

---------------------------------------------------------------------------
(* Po: the plural form and the four lookups *)

\* the plural expressions the headers of this model carry
ExprNotOne == <<"(", "n", " ", "!", "=", " ", "1", ")">>
ExprN == <<"n">>

\* env.Execute(po.plural) with n defined: the value of the expression, a bool
\* or an int, or an error for a text that is no expression
Execute(expr, n) ==
    CASE expr = ExprNotOne -> [err |-> FALSE, type |-> "bool", b |-> n # 1, i |-> 0]
      [] expr = ExprN -> [err |-> FALSE, type |-> "int", b |-> FALSE, i |-> n]
      [] OTHER -> [err |-> TRUE, type |-> "", b |-> FALSE, i |-> 0]

\* pluralForm clamping at v >= nplurals
pluralFormGe(po, n) ==
    IF po.nplurals < 1 THEN 0
    ELSE IF po.plural = <<>> THEN 0
    ELSE LET plural == Execute(po.plural, n)
         IN  IF plural.err THEN 0
             ELSE IF plural.type = "bool" THEN (IF plural.b THEN 1 ELSE 0)
             ELSE IF plural.i >= po.nplurals THEN 0
             ELSE plural.i

\* pluralForm without the test of nplurals
pluralFormNoFailsafe(po, n) ==
    IF po.plural = <<>> THEN 0
    ELSE LET plural == Execute(po.plural, n)
         IN  IF plural.err THEN 0
             ELSE IF plural.type = "bool" THEN (IF plural.b THEN 1 ELSE 0)
             ELSE IF plural.i > po.nplurals THEN 0
             ELSE plural.i

pluralForm(po, n) ==
    IF po.nplurals < 1 THEN 0
    ELSE IF po.plural = <<>> THEN 0
    ELSE LET plural == Execute(po.plural, n)
         IN  IF plural.err THEN 0
             ELSE IF plural.type = "bool" THEN (IF plural.b THEN 1 ELSE 0)
             ELSE IF plural.i > po.nplurals THEN 0
             ELSE plural.i

\* translation.get
get(t) ==
    LET g == TextGet(t.Trs, 0)
    IN  IF g.ok THEN g.v ELSE t.id

\* translation.getN: [panic, v]
getN(t, n) ==
    LET g == TextGet(t.Trs, n)
    IN  IF g.panic THEN [panic |-> TRUE, v |-> <<>>]
        ELSE IF g.ok THEN [panic |-> FALSE, v |-> g.v]
        ELSE [panic |-> FALSE, v |-> t.PluralID]

\* what a lookup gives its caller: a string, or a panic
Str(v) == [panic |-> FALSE, v |-> v]
Fault == [panic |-> TRUE, v |-> <<>>]

PoGet(po, str, as) ==
    IF str \in DOMAIN po.Translations
    THEN Str(Sprintf(get(po.Translations[str]), as))
    ELSE Str(Sprintf(str, as))

PoGetN(po, str, plural, n, as) ==
    IF str \in DOMAIN po.Translations
    THEN LET r == getN(po.Translations[str], pluralForm(po, n))
         IN  IF r.panic THEN Fault ELSE Str(Sprintf(r.v, as))
    ELSE Str(Sprintf(plural, as))

PoGetC(po, str, ctx, as) ==
    IF ctx \in DOMAIN po.Contexts /\ str \in DOMAIN po.Contexts[ctx]
    THEN Str(Sprintf(get(po.Contexts[ctx][str]), as))
    ELSE Str(Sprintf(str, as))

PoGetNC(po, str, plural, n, ctx, as) ==
    IF ctx \in DOMAIN po.Contexts /\ str \in DOMAIN po.Contexts[ctx]
    THEN LET r == getN(po.Contexts[ctx][str], pluralForm(po, n))
         IN  IF r.panic THEN Fault ELSE Str(Sprintf(r.v, as))
    ELSE Str(Sprintf(plural, as))

---------------------------------------------------------------------------
(* Locale *)

\* a file name: the directories and the domain whose .po file it is
LCMessages == "LC_MESSAGES"
PathLC(lang, dom) == <<lang, LCMessages, dom>>
PathFlat(lang, dom) == <<lang, dom>>

\* Source.ReadFile over the files of the source: [ok, data]
ReadFile(files, name) ==
    IF name \in DOMAIN files THEN [ok |-> TRUE, data |-> files[name]]
    ELSE [ok |-> FALSE, data |-> <<>>]

\* Locale.findPO: [ok, data]
findPO(files, lang, dom) ==
    LET r1 == ReadFile(files, PathLC(lang, dom))
        r2 == ReadFile(files, PathLC(Take(lang, 2), dom))
        r3 == ReadFile(files, PathFlat(lang, dom))
        r4 == ReadFile(files, PathFlat(Take(lang, 2), dom))
    IN  IF r1.ok THEN r1
        ELSE IF Len(lang) > 2 /\ r2.ok THEN r2
        ELSE IF r3.ok THEN r3
        ELSE IF Len(lang) > 2 /\ r4.ok THEN r4
        ELSE [ok |-> FALSE, data |-> <<>>]

LocaleGetND(doms, dom, str, plural, n, as) ==
    IF dom \notin DOMAIN doms THEN Str(format(plural, as))
    ELSE PoGetN(doms[dom], str, plural, n, as)

LocaleGetD(doms, dom, str, as) == LocaleGetND(doms, dom, str, str, 1, as)

\* the miss branches hand vars to format as one argument, not spread
LocaleGetNDC(doms, dom, str, plural, n, ctx, as) ==
    IF dom \notin DOMAIN doms THEN Str(format(plural, <<SliceArg(as)>>))
    ELSE PoGetNC(doms[dom], str, plural, n, ctx, as)

LocaleGetDC(doms, dom, str, ctx, as) == LocaleGetNDC(doms, dom, str, str, 1, ctx, as)

---------------------------------------------------------------------------
(* The inputs: buffers made of lines and blocks, lookups' arguments *)

MaxItems == 2
MaxN == 3

Quoted(s) == <<QT>> \o s \o <<QT>>
KwLine(k, s) == k \o <<" ">> \o Quoted(s) \o <<NL>>
IdxLine(idx, s) == Kmsgstr \o <<"[">> \o idx \o <<"]", " ">> \o Quoted(s) \o <<NL>>

IdA == <<"a">>
CtxA == <<"A">>
CtxB == <<"B">>
OneItem == <<"O", "n", "e", " ", "i", "t", "e", "m">>
DItems == <<"%", "d", " ", "i", "t", "e", "m", "s">>

\* msgid "" / msgstr "" / "Plural-Forms: nplurals=2; plural=<expr>;\n"
HeaderBlock(expr) ==
    KwLine(Kmsgid, <<>>) \o KwLine(Kmsgstr, <<>>)
    \o Quoted(KPluralForms \o <<":", " ">> \o Knplurals \o <<"=", "2", ";", " ">>
              \o Kplural \o <<"=">> \o expr \o <<";", BS, "n">>)
    \o <<NL>>

ItemBlank == <<NL>>
ItemMsgid == KwLine(Kmsgid, IdA)
ItemMsgstr == KwLine(Kmsgstr, <<"b">>)
ItemPlural == KwLine(KmsgidPlural, <<"%", "d", "p">>)
ItemMsgstr1 == IdxLine(<<"1">>, <<"c">>)
ItemMsgstrBad == IdxLine(<<"a", "b", "c">>, <<"z">>)
ItemCtxt == KwLine(Kmsgctxt, CtxA)
ItemString == Quoted(<<"d">>) \o <<NL>>
ItemBadQuote == Kmsgid \o <<" ", QT, "a", NL>>
ItemHeaderBool == HeaderBlock(ExprNotOne)
ItemHeaderInt == HeaderBlock(ExprN)
ItemMsgstrNeg == IdxLine(<<"-", "1">>, <<"z">>)
ItemOutOfOrder == KwLine(Kmsgid, IdA) \o IdxLine(<<"1">>, <<"c">>) \o KwLine(Kmsgstr, <<"b">>)
ItemEntryA == KwLine(Kmsgctxt, CtxA) \o KwLine(Kmsgid, IdA) \o KwLine(Kmsgstr, <<"x">>)
ItemEntryB == KwLine(Kmsgctxt, CtxB) \o KwLine(Kmsgid, IdA) \o KwLine(Kmsgstr, <<"y">>)

Items ==
    {ItemBlank, ItemMsgid, ItemMsgstr, ItemPlural, ItemMsgstr1, ItemMsgstrBad,
     ItemCtxt, ItemString, ItemBadQuote, ItemHeaderBool, ItemHeaderInt, ItemEntryA,
     ItemEntryB, ItemMsgstrNeg, ItemOutOfOrder}

RECURSIVE Concat(_)
Concat(ss) == IF ss = <<>> THEN <<>> ELSE Head(ss) \o Concat(Tail(ss))

\* the end-to-end example: a header, then one entry with two plural forms
ExampleBuf ==
    ItemHeaderBool \o <<NL>>
    \o KwLine(Kmsgid, OneItem) \o KwLine(KmsgidPlural, DItems)
    \o IdxLine(<<"0">>, OneItem) \o IdxLine(<<"1">>, DItems)

\* a header entry, and an entry whose msgid line does not parse, each after a
\* msgctxt line and before another entry
BufCtxtHeader ==
    ItemCtxt \o KwLine(Kmsgid, <<>>) \o KwLine(Kmsgstr, <<>>) \o ItemMsgid \o ItemMsgstr
BufCtxtBadId == ItemCtxt \o ItemBadQuote \o ItemMsgid \o ItemMsgstr

\* msgid "" / msgstr "" / "Plural-Forms: <value>\n"
HeaderWith(value) ==
    KwLine(Kmsgid, <<>>) \o KwLine(Kmsgstr, <<>>)
    \o Quoted(KPluralForms \o <<":", " ">> \o value \o <<BS, "n">>) \o <<NL>>

\* headers whose plural metadata is absent or malformed, each before an entry
\* that has the forms 0 and 1
ExprBad == <<"n", " ", "+">>
BufNoNplurals == HeaderWith(Kplural \o <<"=">> \o ExprNotOne \o <<";">>) \o ItemOutOfOrder
BufBadNplurals ==
    HeaderWith(Knplurals \o <<"=", "x", ";", " ">> \o Kplural \o <<"=">> \o ExprNotOne
               \o <<";">>) \o ItemOutOfOrder
BufEmptyPlural ==
    HeaderWith(Knplurals \o <<"=", "2", ";", " ">> \o Kplural \o <<"=", ";">>)
    \o ItemOutOfOrder
BufBadPlural ==
    HeaderWith(Knplurals \o <<"=", "2", ";", " ">> \o Kplural \o <<"=">> \o ExprBad
               \o <<";">>) \o ItemOutOfOrder

\* an entry whose last line has no newline
BufNoNewline == ItemMsgid \o Kmsgstr \o <<" ">> \o Quoted(<<"b">>)

CaseBuffers ==
    {ExampleBuf, BufCtxtHeader, BufCtxtBadId, BufNoNplurals, BufBadNplurals, BufEmptyPlural,
     BufBadPlural, BufNoNewline}

Buffers ==
    {Concat(ss) : ss \in UNION {[1..k -> Items] : k \in 0..MaxItems}} \cup CaseBuffers

LookupStrs == {IdA, OneItem}
LookupCtxs == {CtxA, CtxB}
LookupNs == ((-1)..MaxN) \cup {5}
LookupArgs == {<<>>, <<IntArg(5)>>}

---------------------------------------------------------------------------
(* The state machine of one Parse call and of the lookups on its catalog *)

NoRet == [nilpo |-> TRUE, po |-> NewPo, err |-> FALSE]

NoCall ==
    [op |-> "none", dom |-> "", str |-> <<>>, plural |-> <<>>, n |-> 0, ctx |-> <<>>,
     as |-> <<>>, r |-> Str(<<>>), err |-> FALSE]

\* sync.RWMutex, unlocked
NoLock == [readers |-> {}, pending |-> {}, writer |-> "none"]

\* the goroutines that look up, and one that is between two lookups
NumReaders == 2
Readers == 1..NumReaders
IdleReader ==
    [pc |-> "idle", op |-> "none", dom |-> "", n |-> 0, hit |-> FALSE, po |-> NewPo,
     polocks |-> 0, r |-> Str(<<>>)]
NoReaders == [g \in Readers |-> IdleReader]

\* NewLocaleSet()
NewLocaleSet == [domains |-> {}, locales |-> EmptyMap]
\* a Locale as the set holds it: its language and the domains loaded in it
NoLocale == [lang |-> <<>>, doms |-> {}, given |-> FALSE]
NoSetCall ==
    [op |-> "none", l |-> <<>>, dom |-> "", loc |-> NoLocale, err |-> FALSE,
     null |-> FALSE, str |-> <<>>, as |-> <<>>, r |-> Str(<<>>)]

\* Parse: ctx.po = NewPo(), ctx.buf = data, ctx.curTranslation = newTranslation()
Init ==
    /\ \E data \in Buffers, strict \in BOOLEAN : p = NewParseCtx(data, strict)
    /\ pc = "Run"
    /\ ret = NoRet
    /\ call = NoCall
    /\ commits = <<>>
    /\ src = EmptyMap
    /\ domains = EmptyMap
    /\ loading = ""
    /\ lcall = NoCall
    /\ mu = NoLock
    /\ rd = NoReaders
    /\ published = {}
    /\ lset = NewLocaleSet
    /\ scall = NoSetCall

\* the trimmed line the next iteration of Run dispatches
NextKind == Kind(TrimSpace(Line(p).line))

\* what Parse returns once Run has returned r
ParseReturn(r) ==
    IF r.err /\ p.strict THEN [nilpo |-> TRUE, po |-> NewPo, err |-> TRUE]
    ELSE [nilpo |-> FALSE, po |-> r.c.po, err |-> FALSE]

\* the entry a pop of the current state stores, if it stores one
Committed ==
    IF p.curTranslation.id # <<>>
    THEN Append(commits, [ctx |-> p.curContext, tr |-> p.curTranslation])
    ELSE commits

\* one iteration of Run's loop: the line is read and dispatched
DoLine ==
    /\ LET r == RunLine(p)
       IN  /\ p' = r.c
           /\ pc' = IF r.panic THEN "panic" ELSE IF r.err /\ p.strict THEN "done" ELSE "Run"
           /\ ret' = IF ~r.panic /\ r.err /\ p.strict THEN ParseReturn(r) ELSE ret
           /\ commits' = IF NextKind \in {"msgctxt", "msgid"} THEN Committed ELSE commits
    /\ UNCHANGED <<call, src, domains, loading, lcall, mu, rd, published, lset, scall>>

StepContext ==
    /\ pc = "Run" /\ HasNext(p)
    /\ NextKind = "msgctxt"
    /\ DoLine

StepPluralID ==
    /\ pc = "Run" /\ HasNext(p)
    /\ NextKind = "msgid_plural"
    /\ DoLine

StepID ==
    /\ pc = "Run" /\ HasNext(p)
    /\ NextKind = "msgid"
    /\ DoLine

StepMessage ==
    /\ pc = "Run" /\ HasNext(p)
    /\ NextKind = "msgstr"
    /\ DoLine

StepString ==
    /\ pc = "Run" /\ HasNext(p)
    /\ NextKind = "string"
    /\ DoLine

StepOther ==
    /\ pc = "Run" /\ HasNext(p)
    /\ NextKind = "other"
    /\ DoLine

\* the end of Run (the last pop, the headers) and Parse's return
Finish ==
    /\ pc = "Run"
    /\ ~HasNext(p)
    /\ LET r == RunEnd(p)
       IN  /\ p' = r.c
           /\ ret' = ParseReturn(r)
           /\ published' = IF ParseReturn(r).nilpo THEN published
                           ELSE published \cup {ParseReturn(r).po}
    /\ pc' = "done"
    /\ commits' = Committed
    /\ UNCHANGED <<call, src, domains, loading, lcall, mu, rd, lset, scall>>

\* Parse has returned a catalog and the caller holds no lookup result
Returned == pc = "done" /\ ~ret.nilpo /\ call.op = "none"

Get(str, as) ==
    /\ Returned
    /\ call' = [NoCall EXCEPT !.op = "Get", !.str = str, !.as = as,
                              !.r = PoGet(ret.po, str, as)]
    /\ UNCHANGED <<p, pc, ret, commits, src, domains, loading, lcall, mu, rd, published, lset, scall>>

GetN(str, plural, n, as) ==
    /\ Returned
    /\ call' = [NoCall EXCEPT !.op = "GetN", !.str = str, !.plural = plural, !.n = n,
                              !.as = as, !.r = PoGetN(ret.po, str, plural, n, as)]
    /\ UNCHANGED <<p, pc, ret, commits, src, domains, loading, lcall, mu, rd, published, lset, scall>>

GetC(str, ctx, as) ==
    /\ Returned
    /\ call' = [NoCall EXCEPT !.op = "GetC", !.str = str, !.ctx = ctx, !.as = as,
                              !.r = PoGetC(ret.po, str, ctx, as)]
    /\ UNCHANGED <<p, pc, ret, commits, src, domains, loading, lcall, mu, rd, published, lset, scall>>

GetNC(str, plural, n, ctx, as) ==
    /\ Returned
    /\ call' = [NoCall EXCEPT !.op = "GetNC", !.str = str, !.plural = plural, !.n = n,
                              !.ctx = ctx, !.as = as,
                              !.r = PoGetNC(ret.po, str, plural, n, ctx, as)]
    /\ UNCHANGED <<p, pc, ret, commits, src, domains, loading, lcall, mu, rd, published, lset, scall>>

\* the caller takes the result of its lookup; the catalog is as it was
Consume ==
    /\ pc = "done"
    /\ call.op # "none"
    /\ call' = NoCall
    /\ UNCHANGED <<p, pc, ret, commits, src, domains, loading, lcall, mu, rd, published, lset, scall>>

Next ==
    \/ StepContext
    \/ StepPluralID
    \/ StepID
    \/ StepMessage
    \/ StepString
    \/ StepOther
    \/ Finish
    \/ \E str \in LookupStrs, as \in LookupArgs : Get(str, as)
    \/ \E str \in LookupStrs, n \in LookupNs :
          \E as \in {<<>>, <<IntArg(n)>>} : GetN(str, DItems, n, as)
    \/ \E str \in LookupStrs, ctx \in LookupCtxs : GetC(str, ctx, <<>>)
    \/ \E n \in LookupNs, ctx \in LookupCtxs : GetNC(IdA, DItems, n, ctx, <<IntArg(n)>>)
    \/ Consume

Spec == Init /\ [][Next]_vars

---------------------------------------------------------------------------
(* The state machine of one Locale: domains are loaded, lookups are made *)

\* NewLocale("en_UK"): the default domain is "default", the map is empty
LocaleLang == <<"e", "n", "_", "U", "K">>
DefaultDomain == "default"

FileDefault == ItemHeaderBool \o ItemMsgid \o ItemPlural \o ItemMsgstr1
FileExtra == ItemEntryB

\* a source that has default.po under en_UK/LC_MESSAGES and extra.po under en
SourceFiles ==
    Put(Put(EmptyMap, PathLC(LocaleLang, "default"), FileDefault),
        PathFlat(Take(LocaleLang, 2), "extra"), FileExtra)

\* the same source after default.po was rewritten
FileRewritten == ItemBlank \o ItemMsgid \o ItemMsgstr
SourceRewritten == Put(SourceFiles, PathLC(LocaleLang, "default"), FileRewritten)

\* a source that has default.po under en/LC_MESSAGES and under en_UK
SourceMixed ==
    Put(Put(EmptyMap, PathLC(Take(LocaleLang, 2), "default"), FileRewritten),
        PathFlat(LocaleLang, "default"), FileDefault)

\* a source whose default.po has a Plural-Forms rule that is the number
\* itself, an entry with two forms and an entry with a plural id and no form
FilePlural ==
    ItemHeaderInt \o ItemMsgid \o ItemMsgstr \o ItemMsgstr1 \o ItemCtxt \o ItemMsgid \o ItemPlural
SourcePlural == Put(EmptyMap, PathLC(LocaleLang, "default"), FilePlural)

\* the states of the Source: the files may be replaced or removed
Sources == {SourceFiles, SourceRewritten, SourceMixed, SourcePlural, EmptyMap}

LookupDoms == {"default", "extra", "none"}

InitLocale ==
    /\ p = NewParseCtx(<<>>, FALSE)
    /\ pc = "idle"
    /\ ret = NoRet
    /\ call = NoCall
    /\ commits = <<>>
    /\ src = SourceFiles
    /\ domains = EmptyMap
    /\ loading = ""
    /\ lcall = NoCall
    /\ mu = NoLock
    /\ rd = NoReaders
    /\ published = {}
    /\ lset = NewLocaleSet
    /\ scall = NoSetCall

\* the files of the Source change while no AddDomain is running
SourceChange ==
    /\ pc = "idle"
    /\ lcall.op = "none"
    /\ \E files \in Sources \ {src} : src' = files
    /\ UNCHANGED <<p, pc, ret, call, commits, domains, loading, lcall, mu, rd, published,
                   lset, scall>>

\* AddDomain that drops the domain's entry when findPO finds no file
AddDomainFailDrop(dom) ==
    /\ pc = "idle"
    /\ ~findPO(src, LocaleLang, dom).ok
    /\ lcall' = [NoCall EXCEPT !.op = "AddDomain", !.dom = dom, !.err = TRUE]
    /\ domains' = [d \in DOMAIN domains \ {dom} |-> domains[d]]
    /\ UNCHANGED <<p, pc, ret, call, commits, src, loading, mu, rd, published, lset, scall>>

\* AddDomain when findPO finds no file: the error is returned
AddDomainFail(dom) ==
    /\ pc = "idle"
    /\ ~findPO(src, LocaleLang, dom).ok
    /\ lcall' = [NoCall EXCEPT !.op = "AddDomain", !.dom = dom, !.err = TRUE]
    /\ UNCHANGED <<p, pc, ret, call, commits, src, domains, loading, mu, rd, published, lset, scall>>

\* AddDomain that stores the catalog before Parse has populated it
AddDomainParseStoring(dom) ==
    /\ pc = "idle"
    /\ findPO(src, LocaleLang, dom).ok
    /\ p' = NewParseCtx(findPO(src, LocaleLang, dom).data, FALSE)
    /\ pc' = "Run"
    /\ ret' = NoRet
    /\ commits' = <<>>
    /\ loading' = dom
    /\ domains' = Put(domains, dom, NewPo)
    /\ UNCHANGED <<call, src, lcall, mu, rd, published, lset, scall>>

\* AddDomain up to the call of Parse: NewParser() is lenient; the lines are
\* then handled by the steps of Run
AddDomainParse(dom) ==
    /\ pc = "idle"
    /\ findPO(src, LocaleLang, dom).ok
    /\ p' = NewParseCtx(findPO(src, LocaleLang, dom).data, FALSE)
    /\ pc' = "Run"
    /\ ret' = NoRet
    /\ commits' = <<>>
    /\ loading' = dom
    /\ UNCHANGED <<call, src, domains, lcall, mu, rd, published, lset, scall>>

\* AddDomain after Parse has returned: the catalog is stored under the lock
AddDomainStore ==
    /\ pc = "done"
    /\ loading # ""
    /\ domains' = IF ret.err THEN domains ELSE Put(domains, loading, ret.po)
    /\ lcall' = [NoCall EXCEPT !.op = "AddDomain", !.dom = loading, !.err = ret.err]
    /\ pc' = "idle"
    /\ loading' = ""
    /\ UNCHANGED <<p, ret, call, commits, src, mu, rd, published, lset, scall>>

\* a lookup that stores the string it missed in the domain's catalog
LookupStoring(op, dom, str, plural, n, ctx, as, r) ==
    /\ pc # "panic"
    /\ lcall.op = "none"
    /\ lcall' = [op |-> op, dom |-> dom, str |-> str, plural |-> plural, n |-> n,
                 ctx |-> ctx, as |-> as, r |-> r, err |-> FALSE]
    /\ domains' = IF dom \in DOMAIN domains /\ str \notin DOMAIN domains[dom].Translations
                  THEN [domains EXCEPT ![dom].Translations =
                            Put(@, str, [newTranslation EXCEPT !.id = str])]
                  ELSE domains
    /\ UNCHANGED <<p, pc, ret, call, commits, src, loading, mu, rd, published, lset, scall>>

\* a lookup on the Locale: the call and what it returned
Lookup(op, dom, str, plural, n, ctx, as, r) ==
    /\ pc # "panic"
    /\ lcall.op = "none"
    /\ lcall' = [op |-> op, dom |-> dom, str |-> str, plural |-> plural, n |-> n,
                 ctx |-> ctx, as |-> as, r |-> r, err |-> FALSE]
    /\ UNCHANGED <<p, pc, ret, call, commits, src, domains, loading, mu, rd, published, lset, scall>>

LGet(str, as) ==
    Lookup("Get", DefaultDomain, str, <<>>, 0, <<>>, as,
           LocaleGetD(domains, DefaultDomain, str, as))

LGetN(str, plural, n, as) ==
    Lookup("GetN", DefaultDomain, str, plural, n, <<>>, as,
           LocaleGetND(domains, DefaultDomain, str, plural, n, as))

LGetD(dom, str, as) ==
    Lookup("GetD", dom, str, <<>>, 0, <<>>, as, LocaleGetD(domains, dom, str, as))

LGetND(dom, str, plural, n, as) ==
    Lookup("GetND", dom, str, plural, n, <<>>, as,
           LocaleGetND(domains, dom, str, plural, n, as))

LGetC(str, ctx, as) ==
    Lookup("GetC", DefaultDomain, str, <<>>, 0, ctx, as,
           LocaleGetDC(domains, DefaultDomain, str, ctx, as))

LGetNC(str, plural, n, ctx, as) ==
    Lookup("GetNC", DefaultDomain, str, plural, n, ctx, as,
           LocaleGetNDC(domains, DefaultDomain, str, plural, n, ctx, as))

LGetDC(dom, str, ctx, as) ==
    Lookup("GetDC", dom, str, <<>>, 0, ctx, as, LocaleGetDC(domains, dom, str, ctx, as))

LGetNDC(dom, str, plural, n, ctx, as) ==
    Lookup("GetNDC", dom, str, plural, n, ctx, as,
           LocaleGetNDC(domains, dom, str, plural, n, ctx, as))

\* the caller takes the result of its call; the Locale is as it was
LConsume ==
    /\ lcall.op # "none"
    /\ lcall' = NoCall
    /\ UNCHANGED <<p, pc, ret, call, commits, src, domains, loading, mu, rd, published, lset, scall>>

NextLocale ==
    \/ SourceChange
    \/ \E dom \in LookupDoms : AddDomainFail(dom)
    \/ \E dom \in LookupDoms : AddDomainParse(dom)
    \/ StepContext
    \/ StepPluralID
    \/ StepID
    \/ StepMessage
    \/ StepString
    \/ StepOther
    \/ Finish
    \/ AddDomainStore
    \/ \E str \in LookupStrs, as \in LookupArgs : LGet(str, as)
    \/ \E str \in LookupStrs, as \in LookupArgs : LGetN(str, DItems, 2, as)
    \/ \E dom \in LookupDoms, str \in LookupStrs, as \in LookupArgs : LGetD(dom, str, as)
    \/ \E dom \in LookupDoms, n \in LookupNs : LGetND(dom, IdA, DItems, n, <<IntArg(n)>>)
    \/ \E str \in LookupStrs, as \in LookupArgs : LGetC(str, CtxB, as)
    \/ \E str \in LookupStrs, as \in LookupArgs : LGetNC(str, DItems, 2, CtxB, as)
    \/ \E dom \in LookupDoms, str \in LookupStrs, as \in LookupArgs :
           LGetDC(dom, str, CtxB, as)
    \/ \E dom \in LookupDoms, n \in LookupNs :
           LGetNDC(dom, IdA, DItems, n, CtxB, <<IntArg(n)>>)
    \/ LConsume

SpecLocale == InitLocale /\ [][NextLocale]_vars

---------------------------------------------------------------------------
(* The state machine of one Locale used by several goroutines: one calls
   AddDomain, the others make lookups.  Locale.mu is a sync.RWMutex: a call
   of Lock keeps later calls of RLock waiting until Unlock. *)

SyncDoms == {"default", "extra"}
SyncN == 2

InitSync ==
    /\ p = NewParseCtx(<<>>, FALSE)
    /\ pc = "idle"
    /\ ret = NoRet
    /\ call = NoCall
    /\ commits = <<>>
    /\ src = SourceFiles
    /\ domains = EmptyMap
    /\ loading = ""
    /\ lcall = NoCall
    /\ mu = NoLock
    /\ rd = NoReaders
    /\ published = {}
    /\ lset = NewLocaleSet
    /\ scall = NoSetCall

\* default.po is rewritten while no AddDomain is running
SourceRewrite ==
    /\ pc = "idle"
    /\ src = SourceFiles
    /\ src' = SourceRewritten
    /\ UNCHANGED <<p, pc, ret, call, commits, domains, loading, lcall, mu, rd, published,
                   lset, scall>>

\* a step of goroutine g in a lookup: its new position, and Locale.mu
ReaderStep(g, r, m) ==
    /\ rd' = [rd EXCEPT ![g] = r]
    /\ mu' = m
    /\ UNCHANGED <<p, pc, ret, call, commits, src, domains, loading, lcall, published,
                   lset, scall>>

\* the lookup that goroutine g makes: GetND or GetNDC
ReaderOp(g) == IF g % 2 = 1 THEN "GetND" ELSE "GetNDC"

\* goroutine g calls GetND or GetNDC, which calls l.mu.RLock(): the lock is
\* taken unless a writer holds or awaits it
RLock(g, dom) ==
    /\ rd[g].pc = "idle"
    /\ LET r == [IdleReader EXCEPT !.op = ReaderOp(g), !.dom = dom, !.n = SyncN]
       IN  IF mu.writer = "none"
           THEN ReaderStep(g, [r EXCEPT !.pc = "load"], [mu EXCEPT !.readers = @ \cup {g}])
           ELSE ReaderStep(g, [r EXCEPT !.pc = "blocked"],
                           [mu EXCEPT !.pending = @ \cup {g}])

\* the result of the lookup of goroutine g in the catalog po
ReaderResult(r, po) ==
    IF r.op = "GetND" THEN PoGetN(po, IdA, DItems, r.n, <<IntArg(r.n)>>)
    ELSE PoGetNC(po, IdA, DItems, r.n, CtxB, <<IntArg(r.n)>>)

\* the result when the Locale has no catalog for the domain
ReaderMiss(r) ==
    IF r.op = "GetND" THEN Str(format(DItems, <<IntArg(r.n)>>))
    ELSE Str(format(DItems, <<SliceArg(<<IntArg(r.n)>>)>>))

\* does the catalog have the entry that the lookup asks for
ReaderFinds(r, po) ==
    IF r.op = "GetND" THEN IdA \in DOMAIN po.Translations
    ELSE CtxB \in DOMAIN po.Contexts /\ IdA \in DOMAIN po.Contexts[CtxB]

\* po, ok := l.domains[dom]
RLoad(g) ==
    /\ rd[g].pc = "load"
    /\ IF rd[g].dom \in DOMAIN domains
       THEN ReaderStep(g, [rd[g] EXCEPT !.pc = "PoRLock", !.hit = TRUE,
                                        !.po = domains[rd[g].dom]], mu)
       ELSE ReaderStep(g, [rd[g] EXCEPT !.pc = "RUnlock", !.r = ReaderMiss(rd[g])], mu)

\* po.GetN, po.GetNC: po.RLock() and the search of the entry.  No code of
\* the package calls po.Lock(), so po.RLock() never waits
PoRLock(g) ==
    /\ rd[g].pc = "PoRLock"
    /\ IF ReaderFinds(rd[g], rd[g].po)
       THEN ReaderStep(g, [rd[g] EXCEPT !.pc = "pluralForm", !.polocks = 1], mu)
       ELSE ReaderStep(g, [rd[g] EXCEPT !.pc = "PoRUnlock", !.polocks = 1,
                                        !.r = ReaderResult(rd[g], rd[g].po)], mu)

\* po.pluralForm: po.RLock() a second time
PluralRLock(g) ==
    /\ rd[g].pc = "pluralForm"
    /\ ReaderStep(g, [rd[g] EXCEPT !.pc = "getN", !.polocks = 2], mu)

\* pluralForm returns (deferred po.RUnlock()), getN and Sprintf
PluralRUnlock(g) ==
    /\ rd[g].pc = "getN"
    /\ ReaderStep(g, [rd[g] EXCEPT !.pc = "PoRUnlock", !.polocks = 1,
                                   !.r = ReaderResult(rd[g], rd[g].po)], mu)

\* po.GetN returns: deferred po.RUnlock()
PoRUnlock(g) ==
    /\ rd[g].pc = "PoRUnlock"
    /\ ReaderStep(g, [rd[g] EXCEPT !.pc = "RUnlock", !.polocks = 0], mu)

\* GetND returns: deferred l.mu.RUnlock()
RUnlock(g) ==
    /\ rd[g].pc = "RUnlock"
    /\ ReaderStep(g, IdleReader, [mu EXCEPT !.readers = @ \ {g}])

\* AddDomain after Parse has returned: l.mu.Lock() is called
WLock ==
    /\ pc = "done"
    /\ loading # ""
    /\ mu.writer = "none"
    /\ IF ret.err
       THEN /\ pc' = "idle"
            /\ loading' = ""
            /\ mu' = mu
       ELSE /\ mu' = [mu EXCEPT !.writer = IF mu.readers = {} THEN "held" ELSE "waiting"]
            /\ UNCHANGED <<pc, loading>>
    /\ UNCHANGED <<p, ret, call, commits, src, domains, lcall, rd, published, lset, scall>>

\* Lock() that returns while readers still hold the lock
WAcquireBarging ==
    /\ mu.writer = "waiting"
    /\ mu' = [mu EXCEPT !.writer = "held"]
    /\ UNCHANGED <<p, pc, ret, call, commits, src, domains, loading, lcall, rd, published,
                   lset, scall>>

\* Lock() returns once the readers that held the lock have released it
WAcquire ==
    /\ mu.writer = "waiting"
    /\ mu.readers = {}
    /\ mu' = [mu EXCEPT !.writer = "held"]
    /\ UNCHANGED <<p, pc, ret, call, commits, src, domains, loading, lcall, rd, published,
                   lset, scall>>

\* l.domains[dom] = po
WStore ==
    /\ mu.writer = "held"
    /\ domains' = Put(domains, loading, ret.po)
    /\ mu' = [mu EXCEPT !.writer = "written"]
    /\ UNCHANGED <<p, pc, ret, call, commits, src, loading, lcall, rd, published, lset,
                   scall>>

\* AddDomain that returns and leaves the waiting readers waiting
WUnlockNoWake ==
    /\ mu.writer = "written"
    /\ mu' = [mu EXCEPT !.writer = "none"]
    /\ pc' = "idle"
    /\ loading' = ""
    /\ UNCHANGED <<p, ret, call, commits, src, domains, lcall, rd, published, lset, scall>>

\* AddDomain returns: deferred l.mu.Unlock() lets the waiting readers in
WUnlock ==
    /\ mu.writer = "written"
    /\ mu' = [readers |-> mu.pending, pending |-> {}, writer |-> "none"]
    /\ rd' = [g \in Readers |-> IF g \in mu.pending THEN [rd[g] EXCEPT !.pc = "load"]
                                ELSE rd[g]]
    /\ pc' = "idle"
    /\ loading' = ""
    /\ UNCHANGED <<p, ret, call, commits, src, domains, lcall, published, lset, scall>>

NextSync ==
    \/ SourceRewrite
    \/ \E dom \in SyncDoms : AddDomainParse(dom)
    \/ StepContext
    \/ StepPluralID
    \/ StepID
    \/ StepMessage
    \/ StepString
    \/ StepOther
    \/ Finish
    \/ WLock
    \/ WAcquire
    \/ WStore
    \/ WUnlock
    \/ \E g \in Readers : RLock(g, DefaultDomain)
    \/ \E g \in Readers : RLoad(g)
    \/ \E g \in Readers : PoRLock(g)
    \/ \E g \in Readers : PluralRLock(g)
    \/ \E g \in Readers : PluralRUnlock(g)
    \/ \E g \in Readers : PoRUnlock(g)
    \/ \E g \in Readers : RUnlock(g)

SpecSync == InitSync /\ [][NextSync]_vars

\* the steps of the goroutine that calls AddDomain, once Parse has returned
WriterRuns ==
    \/ WLock
    \/ WAcquire
    \/ WStore
    \/ WUnlock

\* weak fairness of the steps of Parse, written out: while pc = "Run" one of
\* the steps of Run or Finish is enabled, and each of them changes p or pc
ParserRuns ==
    []<>(pc # "Run") \/ []<><<pc = "Run" /\ (p' # p \/ pc' # pc)>>_vars

\* the steps of goroutine g in a lookup, once it has called it
ReaderRuns(g) ==
    \/ RLoad(g)
    \/ PoRLock(g)
    \/ PluralRLock(g)
    \/ PluralRUnlock(g)
    \/ PoRUnlock(g)
    \/ RUnlock(g)

\* the Go scheduler lets every goroutine that can run take its next step
FairSync ==
    /\ SpecSync
    /\ ParserRuns
    /\ WF_vars(WriterRuns)
    /\ \A g \in Readers : WF_vars(ReaderRuns(g))

---------------------------------------------------------------------------
(* The state machine of one form list: the Trs of a translation, on which
   Set and Get are called *)

MaxIdx == 2
Forms == {<<>>, <<"b">>, <<"c">>}

\* newTranslation(): tr.Trs = textlist(nil)
InitText ==
    /\ p = NewParseCtx(<<>>, FALSE)
    /\ pc = "idle"
    /\ ret = NoRet
    /\ call = NoCall
    /\ commits = <<>>
    /\ src = EmptyMap
    /\ domains = EmptyMap
    /\ loading = ""
    /\ lcall = NoCall
    /\ mu = NoLock
    /\ rd = NoReaders
    /\ published = {}
    /\ lset = NewLocaleSet
    /\ scall = NoSetCall

\* Trs.Set(idx, s)
TrsSet(idx, s) ==
    /\ p' = [p EXCEPT !.curTranslation.Trs = TextSet(@, idx, s).v]
    /\ call' = [NoCall EXCEPT !.op = "Set", !.n = idx, !.str = s]
    /\ UNCHANGED <<pc, ret, commits, src, domains, loading, lcall, mu, rd, published, lset,
                   scall>>

\* Trs.Get(idx): the string and whether it is present
TrsGet(idx) ==
    /\ LET g == TextGet(p.curTranslation.Trs, idx)
       IN  call' = [NoCall EXCEPT !.op = "Get", !.n = idx, !.r = Str(g.v), !.err = ~g.ok]
    /\ UNCHANGED <<p, pc, ret, commits, src, domains, loading, lcall, mu, rd, published,
                   lset, scall>>

NextText ==
    \/ \E idx \in 0..MaxIdx, s \in Forms : TrsSet(idx, s)
    \/ \E idx \in 0..(MaxIdx + 1) : TrsGet(idx)

SpecText == InitText /\ [][NextText]_vars

---------------------------------------------------------------------------
(* The state machine of one LocaleSet *)

LangJa == <<"j", "a">>
LocaleNames == {LocaleLang, LangJa}
SetDoms == {"default", "extra"}

\* Locales a caller hands to SetLocale
GivenLocales == {[lang |-> l, doms |-> {}, given |-> TRUE] : l \in LocaleNames}

InitSet ==
    /\ p = NewParseCtx(<<>>, FALSE)
    /\ pc = "idle"
    /\ ret = NoRet
    /\ call = NoCall
    /\ commits = <<>>
    /\ src = SourceFiles
    /\ domains = EmptyMap
    /\ loading = ""
    /\ lcall = NoCall
    /\ mu = NoLock
    /\ rd = NoReaders
    /\ published = {}
    /\ lset = NewLocaleSet
    /\ scall = NoSetCall

\* a call on the set: its effect on the set and what the caller gets
SetStep(newset, c) ==
    /\ scall.op = "none"
    /\ lset' = newset
    /\ scall' = c
    /\ UNCHANGED <<p, pc, ret, call, commits, src, domains, loading, lcall, mu, rd,
                   published>>

\* LocaleSet.GetLocale that adds an empty Locale for a name it does not find
GetLocaleCreating(l) ==
    IF l \in DOMAIN lset.locales
    THEN SetStep(lset, [NoSetCall EXCEPT !.op = "GetLocale", !.l = l,
                                         !.loc = lset.locales[l]])
    ELSE SetStep([lset EXCEPT !.locales = Put(@, l, [NoLocale EXCEPT !.lang = l])],
                 [NoSetCall EXCEPT !.op = "GetLocale", !.l = l, !.err = TRUE,
                                   !.null = TRUE])

\* LocaleSet.GetLocale
GetLocale(l) ==
    IF l \in DOMAIN lset.locales
    THEN SetStep(lset, [NoSetCall EXCEPT !.op = "GetLocale", !.l = l,
                                         !.loc = lset.locales[l]])
    ELSE SetStep(lset, [NoSetCall EXCEPT !.op = "GetLocale", !.l = l, !.err = TRUE,
                                         !.null = TRUE])

\* LocaleSet.AddDomain
SetAddDomain(dom) ==
    SetStep([lset EXCEPT !.domains = @ \cup {dom}],
            [NoSetCall EXCEPT !.op = "AddDomain", !.dom = dom])

\* LocaleSet.SetLocale
SetLocale(l, locale) ==
    SetStep([lset EXCEPT !.locales = Put(@, l, locale)],
            [NoSetCall EXCEPT !.op = "SetLocale", !.l = l, !.loc = locale])

\* LocaleSet.AddLocale: a new Locale is stored once every registered domain
\* has been loaded in it; a domain whose file is not found is an error
AddLocale(l) ==
    IF l \in DOMAIN lset.locales
    THEN SetStep(lset, [NoSetCall EXCEPT !.op = "AddLocale", !.l = l])
    ELSE IF \E dom \in lset.domains : ~findPO(src, l, dom).ok
    THEN SetStep(lset, [NoSetCall EXCEPT !.op = "AddLocale", !.l = l, !.err = TRUE])
    ELSE SetStep([lset EXCEPT !.locales =
                      Put(@, l, [lang |-> l, doms |-> lset.domains, given |-> FALSE])],
                 [NoSetCall EXCEPT !.op = "AddLocale", !.l = l])

\* NullLocale.Get, to which every lookup of NullLocale hands its str and vars
NullGet(s, args) == Str(Sprintf(s, args))

NullOps == {"Null.Get", "Null.GetC", "Null.GetD", "Null.GetDC", "Null.GetN", "Null.GetNC",
            "Null.GetND", "Null.GetNDC"}

\* a lookup on the NullLocale GetLocale has returned
NullLookup(op, str, as) ==
    /\ scall.op = "GetLocale" /\ scall.null
    /\ scall' = [NoSetCall EXCEPT !.op = op, !.null = TRUE, !.str = str, !.as = as,
                                  !.r = NullGet(str, as)]
    /\ UNCHANGED <<p, pc, ret, call, commits, src, domains, loading, lcall, mu, rd,
                   published, lset>>

\* the caller takes the result of its call; the set is as it was
SConsume ==
    /\ scall.op # "none"
    /\ scall' = NoSetCall
    /\ UNCHANGED <<p, pc, ret, call, commits, src, domains, loading, lcall, mu, rd,
                   published, lset>>

NextSet ==
    \/ \E l \in LocaleNames : GetLocale(l)
    \/ \E dom \in SetDoms : SetAddDomain(dom)
    \/ \E l \in LocaleNames, locale \in GivenLocales : SetLocale(l, locale)
    \/ \E l \in LocaleNames : AddLocale(l)
    \/ \E op \in NullOps, str \in {IdA, DItems}, as \in LookupArgs : NullLookup(op, str, as)
    \/ SConsume

SpecSet == InitSet /\ [][NextSet]_vars

---------------------------------------------------------------------------
(* Properties *)

EntryAB == ItemMsgid \o ItemMsgstr
FiveItems == <<"5", " ", "i", "t", "e", "m", "s">>

\* C1: round trip through Parse and Get.  After a lenient Parse of a buffer
\* made of the well-formed entry msgid "a" / msgstr "b" (at offset 0 or after
\* a blank line), Get("a") returns "b"; Get of an id that does not occur in
\* the buffer returns the id.
C1_RoundTrip ==
    (/\ pc = "done" /\ ~p.strict
     /\ p.buf \in {EntryAB, ItemBlank \o EntryAB}
     /\ call.op = "Get" /\ call.as = <<>>)
    => /\ call.str = IdA => call.r = Str(<<"b">>)
       /\ call.str = OneItem => call.r = Str(OneItem)

\* C2: a strict Parse that fails returns a non-nil error together with a
\* non-nil catalog holding the entries committed before the failing line.
C2_StrictPartialCatalog ==
    (pc = "done" /\ p.strict /\ ret.err)
    => /\ ~ret.nilpo
       /\ ret.po.Translations = p.po.Translations
       /\ ret.po.Contexts = p.po.Contexts

\* C3: a lenient Parse returns a nil error for every sequence of lines, and
\* a buffer with one malformed msgstr[abc] line plus well-formed entries
\* yields a catalog that holds every entry with its forms.
C3_LenientNeverFails ==
    ~p.strict
    => /\ pc # "panic"
       /\ pc = "done" => ~ret.err /\ ~ret.nilpo
       /\ (pc = "done" /\ p.buf \in {ItemMsgstrBad \o ItemEntryB, ItemEntryB \o ItemMsgstrBad,
                                     ItemMsgstrBad \o EntryAB, EntryAB \o ItemMsgstrBad})
          => \/ /\ CtxB \in DOMAIN ret.po.Contexts
                /\ IdA \in DOMAIN ret.po.Contexts[CtxB]
                /\ ret.po.Contexts[CtxB][IdA].Trs = <<(<<"y">>)>>
             \/ /\ IdA \in DOMAIN ret.po.Translations
                /\ ret.po.Translations[IdA].Trs = <<(<<"b">>)>>

\* C4: plural lookups are total: GetN and GetNC return a string for every
\* catalog, entry and n, and never fault.
C4_PluralLookupTotal ==
    call.op \in {"GetN", "GetNC"} => ~call.r.panic

\* the value of the catalog's plural expression lies outside 0..nplurals-1,
\* or its evaluation fails
OutOfRange(po, n) ==
    LET e == Execute(po.plural, n)
    IN  e.err \/ (e.type = "int" /\ (e.i < 0 \/ e.i >= po.nplurals))

\* C5: whenever the plural expression evaluates to an integer outside
\* 0..nplurals-1 (nplurals itself and negative values included), or fails to
\* evaluate, the plural-form index used by the lookup is 0.
C5_OutOfRangeIsZero ==
    (call.op \in {"GetN", "GetNC"} /\ OutOfRange(ret.po, call.n))
    => pluralForm(ret.po, call.n) = 0

\* the index C6 states for an evaluated expression
StatedIndex(e, nplurals) ==
    IF e.type = "bool" THEN (IF e.b THEN 1 ELSE 0)
    ELSE IF e.i > nplurals THEN 0
    ELSE e.i

\* the plural lookup just made evaluated the catalog's plural expression
Evaluated ==
    /\ call.op \in {"GetN", "GetNC"}
    /\ ret.po.nplurals >= 1
    /\ ret.po.plural # <<>>
    /\ ~Execute(ret.po.plural, call.n).err

\* C6: pluralForm maps the evaluated expression to an index: true gives 1,
\* false gives 0, an integer v gives v unless v > nplurals, which gives 0;
\* under nplurals=2; plural=(n != 1), n = 1 gives 0 and every other n gives 1.
C6_PluralFormIndex ==
    Evaluated
    => /\ pluralForm(ret.po, call.n)
            = StatedIndex(Execute(ret.po.plural, call.n), ret.po.nplurals)
       /\ (ret.po.plural = ExprNotOne /\ ret.po.nplurals = 2)
          => pluralForm(ret.po, call.n) = (IF call.n = 1 THEN 0 ELSE 1)

\* C6 witness: an integer result above nplurals was clamped by a GetN
C6_Witness ==
    /\ Evaluated
    /\ ret.po.plural = ExprN
    /\ call.n > ret.po.nplurals
    /\ pluralForm(ret.po, call.n) = 0

\* C7: the end-to-end example.  The header's continuation line reaches the
\* header buffer and sets nplurals and the plural expression, so that
\* GetN("One item", "%d items", 1) gives "One item" and
\* GetN("One item", "%d items", 5, 5) gives "5 items".
C7_EndToEnd ==
    (pc = "done" /\ p.buf = ExampleBuf)
    => /\ ~ret.nilpo
       /\ ret.po.nplurals = 2
       /\ ret.po.plural = ExprNotOne
       /\ (call.op = "GetN" /\ call.str = OneItem /\ call.n = 1 /\ call.as = <<>>)
          => call.r = Str(OneItem)
       /\ (call.op = "GetN" /\ call.str = OneItem /\ call.n = 5
           /\ call.as = <<IntArg(5)>>)
          => call.r = Str(FiveItems)

\* C7 witness: the example was parsed and the plural of 5 looked up
C7_Witness ==
    /\ pc = "done" /\ p.buf = ExampleBuf
    /\ call.op = "GetN" /\ call.str = OneItem /\ call.n = 5
    /\ call.as = <<IntArg(5)>>
    /\ call.r = Str(FiveItems)

\* C8: the fallback chain of GetN for a stored entry: forms[idx] if that slot
\* exists, else the entry's pluralId if it is non-empty, else the caller's
\* plural fallback; the plural fallback when the id is not stored.
C8_FallbackChain ==
    call.op = "GetN"
    => IF call.str \in DOMAIN ret.po.Translations
       THEN LET t == ret.po.Translations[call.str]
                idx == pluralForm(ret.po, call.n)
            IN  call.r = IF idx \in 0..(Len(t.Trs) - 1)
                         THEN Str(Sprintf(t.Trs[idx + 1], call.as))
                         ELSE IF t.PluralID # <<>>
                         THEN Str(Sprintf(t.PluralID, call.as))
                         ELSE Str(Sprintf(call.plural, call.as))
       ELSE call.r = Str(Sprintf(call.plural, call.as))

\* the entries committed under ctx with the id, in the order of their commits
CommitsOf(ctx, id) == SelectSeq(commits, LAMBDA e : e.ctx = ctx /\ e.tr.id = id)

\* what a lookup scoped to ctx ("" for none) must return: the forms of the
\* entry last committed under exactly that context, or the fallback
ScopedResult(ctx, str, fallback, plural) ==
    LET es == CommitsOf(ctx, str)
        t == es[Len(es)].tr
        r == getN(t, pluralForm(ret.po, call.n))
    IN  IF es = <<>> THEN Str(Sprintf(fallback, call.as))
        ELSE IF ~plural THEN Str(Sprintf(get(t), call.as))
        ELSE IF r.panic THEN Fault
        ELSE Str(Sprintf(r.v, call.as))

\* C9: context isolation.  GetC/GetNC with ctx return the entry committed
\* under ctx and no other; Get/GetN return only entries committed under no
\* context; with the context or the id absent the lookup returns the id
\* (the plural fallback for GetNC).
C9_ContextIsolation ==
    /\ call.op = "Get" => call.r = ScopedResult(<<>>, call.str, call.str, FALSE)
    /\ call.op = "GetN" => call.r = ScopedResult(<<>>, call.str, call.plural, TRUE)
    /\ call.op = "GetC" => call.r = ScopedResult(call.ctx, call.str, call.str, FALSE)
    /\ call.op = "GetNC" => call.r = ScopedResult(call.ctx, call.str, call.plural, TRUE)

\* C9 witness: the same id was committed under contexts A and B, and GetC
\* under B returned B's form
C9_Witness ==
    /\ CommitsOf(CtxA, IdA) # <<>>
    /\ CommitsOf(CtxB, IdA) # <<>>
    /\ call.op = "GetC" /\ call.ctx = CtxB /\ call.str = IdA
    /\ call.r = Str(<<"y">>)

\* C10: when the requested domain is not loaded, every Locale lookup returns
\* the fallback (str, or plural for the N variants) formatted with the
\* caller's arguments, the contextual variants like the others.
C10_MissingDomainFallback ==
    (lcall.op \in {"Get", "GetN", "GetD", "GetND", "GetC", "GetNC", "GetDC", "GetNDC"}
     /\ lcall.dom \notin DOMAIN domains)
    => lcall.r = Str(Sprintf(IF lcall.op \in {"GetN", "GetND", "GetNC", "GetNDC"}
                             THEN lcall.plural ELSE lcall.str,
                             lcall.as))

\* C18: multi-line concatenation.  A continuation line that arrives while the
\* pending entry has a non-empty id appends its text to the form the
\* preceding msgstr line set (msgstr "x" then "d" stores form 0 = "xd"; after
\* msgstr[N] the text goes to form N), and leaves the id, the pluralId, the
\* other forms and the header buffer as they were.
C18_ContinuationAppends ==
    (pc = "done" /\ ~ret.nilpo)
    => /\ p.buf = ItemEntryA \o ItemString
          => /\ ret.po.Contexts[CtxA][IdA]
                  = [id |-> IdA, PluralID |-> <<>>, Trs |-> <<(<<"x", "d">>)>>]
             /\ p.rawHeaders = <<NL, NL>>
       /\ p.buf = ItemMsgid \o ItemMsgstr1 \o ItemString
          => ret.po.Translations[IdA]
               = [id |-> IdA, PluralID |-> <<>>, Trs |-> <<(<<>>), (<<"c", "d">>)>>]
       /\ p.buf = ItemOutOfOrder \o ItemString
          => ret.po.Translations[IdA]
               = [id |-> IdA, PluralID |-> <<>>, Trs |-> <<(<<"b", "d">>), (<<"c">>)>>]

\* C19: a msgstr[N] line whose N is not a non-negative integer (abc, -1) is
\* a line error: a lenient parse skips it with the pending entry's forms
\* unchanged and goes on, a strict parse stops with an error; no form is
\* stored and nothing faults.
C19_BadIndexIsLineError ==
    (p.buf \in {ItemMsgid \o ItemMsgstrBad, ItemMsgid \o ItemMsgstrNeg})
    => /\ pc # "panic"
       /\ p.curTranslation.Trs = <<>>
       /\ pc = "done"
          => IF p.strict THEN ret.err
             ELSE /\ ~ret.err
                  /\ ret.po.Translations[IdA] = [id |-> IdA, PluralID |-> <<>>, Trs |-> <<>>]

LookupOps == {"Get", "GetN", "GetD", "GetND", "GetC", "GetNC", "GetDC", "GetNDC"}

\* C15: a failed load leaves the state unchanged.  When the source has no
\* file for the domain, AddDomain returns an error and the domain map is as
\* it was before the call, an earlier version of the same domain included.
C15_FailedLoadKeepsState ==
    [][\A dom \in LookupDoms :
         (/\ pc = "idle"
          /\ ~findPO(src, LocaleLang, dom).ok
          /\ lcall'.op = "AddDomain" /\ lcall'.dom = dom /\ lcall' # lcall)
         => lcall'.err /\ domains' = domains]_vars

\* C15 witness: the reload of a loaded domain failed and the domain is still there
C15_Witness ==
    /\ lcall.op = "AddDomain" /\ lcall.err
    /\ lcall.dom \in DOMAIN domains
    /\ ~findPO(src, LocaleLang, lcall.dom).ok

\* the domain's files under the full language code that the source has
FullCodeFiles(dom) == {PathLC(LocaleLang, dom), PathFlat(LocaleLang, dom)} \cap DOMAIN src

\* C16: language-code simplification.  AddDomain loads the domain's file from
\* the two-letter directory only if the source has no file for the domain
\* under the full language code; a file under the full code is the one loaded.
C16_FullCodeFirst ==
    (pc = "Run" /\ loading # "" /\ p.pos = 0 /\ FullCodeFiles(loading) # {})
    => p.buf \in {src[f] : f \in FullCodeFiles(loading)}

C17_GetLocale ==
    /\ [](/\ (scall.op = "GetLocale" /\ scall.l \in DOMAIN lset.locales)
             => ~scall.err /\ ~scall.null /\ scall.loc = lset.locales[scall.l]
          /\ (scall.op = "GetLocale" /\ scall.l \notin DOMAIN lset.locales)
             => scall.err /\ scall.null
          /\ scall.op \in NullOps => scall.r = Str(Sprintf(scall.str, scall.as))
          /\ (scall.op \in {"SetLocale", "AddLocale"} /\ ~scall.err)
             => scall.l \in DOMAIN lset.locales)
    /\ [][(scall'.op = "GetLocale" /\ scall' # scall) => lset' = lset]_vars

\* C17 witness: a name that is not in the set got the NullLocale, and a lookup
\* with an argument was made on it
C17_Witness ==
    /\ scall.op = "Null.GetN"
    /\ scall.str = DItems /\ scall.as = <<IntArg(5)>>
    /\ scall.r = Str(FiveItems)
    /\ lset.locales # EmptyMap

\* the positions of a lookup between l.mu.RLock() and the deferred RUnlock()
InLookup == {"load", "PoRLock", "pluralForm", "getN", "PoRUnlock", "RUnlock"}
\* the positions of a lookup inside po.GetN or po.GetNC
InCatalog == {"PoRLock", "pluralForm", "getN", "PoRUnlock"}

\* C11: a lookup made while AddDomain reloads a domain resolves against a
\* catalog that Parse has returned, the one stored before or the one stored
\* after; no catalog that is stored or that a lookup holds is one the parser
\* is still populating, and an entry of the map, once present, stays present.
C11_ReloadAtomic ==
    /\ [](/\ \A d \in DOMAIN domains : domains[d] \in published
          /\ \A g \in Readers :
                /\ rd[g].hit => rd[g].po \in published
                /\ (rd[g].pc = "RUnlock" /\ rd[g].hit)
                   => rd[g].r = ReaderResult(rd[g], rd[g].po))
    /\ [][/\ \A d \in DOMAIN domains : d \in DOMAIN domains'
          /\ \A g \in Readers :
                (rd[g].pc = "load" /\ rd'[g].pc # "load" /\ rd[g].dom \in DOMAIN domains)
                => /\ rd'[g].hit
                   /\ rd'[g].po = domains[rd[g].dom]]_vars

\* C11 witness: AddDomain has parsed the rewritten file of a loaded domain
\* and waits for the lock while a lookup works on the old catalog
C11_Witness ==
    /\ mu.writer = "waiting"
    /\ loading = "default"
    /\ "default" \in DOMAIN domains
    /\ ret.po # domains["default"]
    /\ \E g \in Readers : rd[g].pc = "getN" /\ rd[g].po = domains["default"]

\* C12: no state has every goroutine blocked, a reader waits only while a
\* writer is on its way, and every lookup and every AddDomain completes.
C12_DeadlockFree ==
    /\ [](/\ ~(/\ mu.writer = "waiting" /\ mu.readers # {}
               /\ \A g \in Readers : rd[g].pc = "blocked")
          /\ \A g \in Readers :
                /\ rd[g].pc = "blocked" <=> g \in mu.pending
                /\ rd[g].pc = "blocked" => mu.writer # "none" /\ pc = "done"
          /\ mu.readers # {} => \E g \in mu.readers : rd[g].pc \in InLookup)
    /\ \A g \in Readers : (rd[g].pc # "idle") ~> (rd[g].pc = "idle")
    /\ (pc # "idle") ~> (pc = "idle")

\* C12 witness: AddDomain waits for the lock that one lookup holds, inside
\* pluralForm with the catalog's lock taken twice, while another lookup waits
\* behind the writer
C12_Witness ==
    /\ mu.writer = "waiting"
    /\ \E g \in Readers : rd[g].pc = "getN" /\ rd[g].polocks = 2
    /\ \E g \in Readers : rd[g].pc = "blocked"

\* C13: a lookup holds Locale.mu only while it reads the map; the lookup in
\* the catalog runs after the lock is released, so no AddDomain waits for it.
C13_ReadLockScope ==
    /\ \A g \in Readers : rd[g].pc \in InCatalog => g \notin mu.readers
    /\ mu.writer = "waiting" => \A g \in Readers : rd[g].pc \notin InCatalog

\* C14: AddDomain fetches and parses with no lock held and holds the lock
\* only to replace the entry of the map; the write of the map happens with
\* no lookup between RLock and RUnlock; lookups hold the lock together.
C14_WriteLockScope ==
    /\ [](/\ pc \in {"idle", "Run"} => mu.writer = "none"
          /\ mu.writer \in {"held", "written"}
             => /\ mu.readers = {}
                /\ \A g \in Readers : rd[g].pc \notin InLookup
          /\ \A g \in Readers : rd[g].pc \in InLookup <=> g \in mu.readers)
    /\ [][/\ domains' # domains
             => /\ mu.writer = "held" /\ mu.readers = {}
                /\ domains' = Put(domains, loading, ret.po)
          /\ p' # p => mu.writer = "none" /\ mu'.writer = "none"]_vars

\* C14 witness: AddDomain is parsing a file while two lookups hold the lock,
\* one of them in a catalog that was loaded before
C14_Witness ==
    /\ pc = "Run" /\ p.pos > 0
    /\ mu.readers = Readers
    /\ \E g \in Readers : rd[g].pc = "getN" /\ rd[g].hit

\* the physical line that starts at offset pos of buf, and the offset after it
PhysicalLine(buf, pos) ==
    LET rest == Drop(buf, pos)
        i == IndexByte(rest, NL)
    IN  IF i = -1 THEN [pos |-> Len(buf), line |-> rest]
        ELSE [pos |-> pos + i + 1, line |-> Take(rest, i)]

\* C30: while Next() is true, Line() is called at the start of a physical
\* line of the buffer and returns that line whole, unmodified, the last one
\* also when it has no trailing newline.
C30_LineExact ==
    (pc = "Run" /\ HasNext(p))
    => /\ p.pos = 0 \/ p.buf[p.pos] = NL
       /\ Line(p) = PhysicalLine(p.buf, p.pos)

\* C29: a continuation line read while the pending entry has an id and no
\* form is no fault: the read of the form list at index length-1 reports
\* absent, the entry and the catalog stay as they are and Run goes on.
C29_ContinuationWithoutForm ==
    [][(/\ pc = "Run" /\ HasNext(p) /\ NextKind = "string"
        /\ p.curTranslation.id # <<>>
        /\ p.curTranslation.Trs = <<>>)
       => /\ ~TextGet(p.curTranslation.Trs, Len(p.curTranslation.Trs) - 1).panic
          /\ pc' = "Run"
          /\ p' = [p EXCEPT !.pos = Line(p).pos]]_vars

\* C26: Get(id) on a stored entry returns form 0 when a msgstr or msgstr[0]
\* line gave it, and the id itself when no such line did: for an entry with
\* no msgstr line, and for an entry whose only line is msgstr[1].
C26_SingularFallback ==
    (call.op = "Get" /\ call.str = IdA /\ call.as = <<>> /\ IdA \in DOMAIN ret.po.Translations)
    => /\ p.buf = ItemOutOfOrder => call.r = Str(<<"b">>)
       /\ p.buf = ItemMsgid => call.r = Str(IdA)
       /\ p.buf = ItemMsgid \o ItemPlural => call.r = Str(IdA)
       /\ p.buf = ItemMsgid \o ItemMsgstr1 => call.r = Str(IdA)

\* Line() returns the physical line at every line start up to offset pos
LinesExact(buf, pos) ==
    \A q \in 0..pos :
        (q < Len(buf) /\ (q = 0 \/ buf[q] = NL))
        => Line([p EXCEPT !.buf = buf, !.pos = q]) = PhysicalLine(buf, q)

\* the context that the lines before offset pos leave pending: the text of
\* the last msgctxt line, unless a msgid line came after it
PendingContext(buf, pos) ==
    LET lines == Split(Take(buf, pos), NL)
        K == {k \in 1..Len(lines) : Kind(TrimSpace(lines[k])) \in {"msgctxt", "msgid"}}
    IN  IF K = {} THEN <<>>
        ELSE LET l == TrimSpace(lines[Greatest(K)])
                 u == Unquote(TrimSpace(Drop(l, Len(Kmsgctxt))))
             IN  IF Kind(l) = "msgctxt" /\ u.ok THEN u.v ELSE <<>>

\* C21: the entry a msgid line starts is under a context only when a msgctxt
\* line set it since the msgid line before: a context is used by one msgid
\* line, also by one with an empty id and by one that does not parse.
C21_ContextUsedOnce ==
    [][(pc = "Run" /\ HasNext(p) /\ NextKind = "msgid" /\ LinesExact(p.buf, p.pos))
       => p'.curContext = PendingContext(p.buf, p.pos)]_vars

\* every entry of the catalog has a non-empty id and is stored under it, and
\* no per-context map is empty
KeysOk(po) ==
    /\ \A k \in DOMAIN po.Translations : k # <<>> /\ po.Translations[k].id = k
    /\ \A c \in DOMAIN po.Contexts :
          /\ DOMAIN po.Contexts[c] # {}
          /\ \A k \in DOMAIN po.Contexts[c] : k # <<>> /\ po.Contexts[c][k].id = k

\* C22: in every state during and after a parse, every stored translation
\* has a non-empty id equal to its key, an entry with an empty id is never
\* stored, and every per-context map that exists has an entry.
C22_CatalogKeys == KeysOk(p.po) /\ KeysOk(ret.po)

\* C22 witness: a parse has dropped the header entry (empty id) and stored an
\* entry under a context
C22_Witness ==
    /\ pc = "done" /\ ~ret.nilpo
    /\ p.buf = ItemHeaderBool \o ItemEntryA
    /\ ret.po.plural = ExprNotOne
    /\ ret.po.Translations = EmptyMap
    /\ DOMAIN ret.po.Contexts = {CtxA}
    /\ DOMAIN ret.po.Contexts[CtxA] = {IdA}

\* C27: after Set(i, s) with i >= 0, Get(i) is s; the slots below the old
\* length other than i keep their value; the slots from the old length up to
\* i are present and empty; the length is max(old length, i+1); Get reports
\* absent from the length on; two Sets at different indexes give the same
\* list in either order.
C27_SparseForms ==
    /\ [](call.op = "Get"
          => LET l == p.curTranslation.Trs
             IN  /\ call.err <=> call.n >= Len(l)
                 /\ call.err => call.r = Str(<<>>)
                 /\ ~call.err => call.r = Str(l[call.n + 1]))
    /\ [][call'.op = "Set"
          => LET l == p.curTranslation.Trs
                 n == p'.curTranslation.Trs
                 i == call'.n
                 s == call'.str
             IN  /\ TextGet(n, i) = [panic |-> FALSE, ok |-> TRUE, v |-> s]
                 /\ \A j \in 0..(Len(l) - 1) : j # i => n[j + 1] = l[j + 1]
                 /\ \A j \in Len(l)..(i - 1) :
                       TextGet(n, j) = [panic |-> FALSE, ok |-> TRUE, v |-> <<>>]
                 /\ Len(n) = IF Len(l) > i + 1 THEN Len(l) ELSE i + 1
                 /\ \A j \in Len(n)..(MaxIdx + 1) : ~TextGet(n, j).ok
                 /\ \A j \in 0..MaxIdx, t \in Forms :
                       j # i => TextSet(n, j, t).v = TextSet(TextSet(l, j, t).v, i, s).v]_vars

\* C27 witness: index 2 was set first, leaving two empty slots, then index 0
C27_Witness ==
    /\ call.op = "Set" /\ call.n = 0 /\ call.str = <<"b">>
    /\ p.curTranslation.Trs = <<(<<"b">>), (<<>>), (<<"c">>)>>

\* the plural metadata of the catalog is absent or malformed
NoPluralRule(po) ==
    \/ po.PluralForms = <<>>
    \/ po.nplurals < 1
    \/ po.plural = <<>>
    \/ \A n \in LookupNs : Execute(po.plural, n).err

\* C25: with no Plural-Forms header, nplurals < 1, or an empty or
\* unparseable plural expression, pluralForm(n) = 0 for every n, and GetN and
\* GetNC return form 0 of a stored entry that has one, for every n.
C25_PluralFailSafe ==
    (pc = "done" /\ ~ret.nilpo /\ NoPluralRule(ret.po))
    => /\ \A n \in LookupNs : pluralForm(ret.po, n) = 0
       /\ (call.op = "GetN" /\ call.str \in DOMAIN ret.po.Translations
           /\ ret.po.Translations[call.str].Trs # <<>>)
          => call.r = Str(Sprintf(ret.po.Translations[call.str].Trs[1], call.as))
       /\ (call.op = "GetNC" /\ call.ctx \in DOMAIN ret.po.Contexts
           /\ call.str \in DOMAIN ret.po.Contexts[call.ctx]
           /\ ret.po.Contexts[call.ctx][call.str].Trs # <<>>)
          => call.r = Str(Sprintf(ret.po.Contexts[call.ctx][call.str].Trs[1], call.as))

\* C25 witness: the header states nplurals=2 and an expression that does not
\* evaluate; GetN with n = 2 returns form 0 of an entry that has a form 1
C25_Witness ==
    /\ pc = "done" /\ p.buf = BufBadPlural
    /\ ret.po.nplurals = 2 /\ ret.po.plural = ExprBad
    /\ ret.po.Translations[IdA].Trs = <<(<<"b">>), (<<"c">>)>>
    /\ call.op = "GetN" /\ call.str = IdA /\ call.n = 2 /\ call.as = <<>>
    /\ call.r = Str(<<"b">>)

\* C24: in lenient mode a line whose quoted text or index fails to parse
\* changes nothing but the read position: the catalog, the pending entry, the
\* pending context and the header buffer are as before the line.
C24_MalformedLineSkipped ==
    [][(pc = "Run" /\ HasNext(p) /\ ~p.strict /\ RunLine(p).err)
       => /\ pc' = "Run"
          /\ p' = [p EXCEPT !.pos = Line(p).pos]]_vars

\* the catalog po holds the entry tr in the scope of the context ctx
StoredIn(po, ctx, tr) ==
    IF ctx = <<>>
    THEN tr.id \in DOMAIN po.Translations /\ po.Translations[tr.id] = tr
    ELSE /\ ctx \in DOMAIN po.Contexts
         /\ tr.id \in DOMAIN po.Contexts[ctx]
         /\ po.Contexts[ctx][tr.id] = tr

\* C23: the pending entry with a non-empty id is committed when the next
\* msgctxt or msgid line is dispatched and when the input ends; msgid_plural
\* and msgstr lines do not commit; after Parse an entry is in the catalog
\* with the msgid_plural and msgstr lines that followed it applied, also when
\* its last line has no newline; a later entry with the same id in the same
\* scope replaces the earlier one.
C23_CommitOrdering ==
    /\ []((pc = "done" /\ ~ret.nilpo)
          => /\ p.buf = ItemMsgid \o ItemMsgstr
                => ret.po.Translations
                   = Put(EmptyMap, IdA, [id |-> IdA, PluralID |-> <<>>, Trs |-> <<(<<"b">>)>>])
             /\ p.buf = BufNoNewline
                => ret.po.Translations
                   = Put(EmptyMap, IdA, [id |-> IdA, PluralID |-> <<>>, Trs |-> <<(<<"b">>)>>])
             /\ p.buf = ItemMsgid \o ItemPlural
                => ret.po.Translations
                   = Put(EmptyMap, IdA,
                         [id |-> IdA, PluralID |-> <<"%", "d", "p">>, Trs |-> <<>>])
             /\ p.buf = ItemOutOfOrder \o ItemMsgid
                => ret.po.Translations
                   = Put(EmptyMap, IdA, [id |-> IdA, PluralID |-> <<>>, Trs |-> <<>>]))
    /\ [][/\ (pc = "Run" /\ HasNext(p) /\ NextKind \in {"msgctxt", "msgid"}
              /\ p.curTranslation.id # <<>>)
             => StoredIn(p'.po, p.curContext, p.curTranslation)
          /\ (pc = "Run" /\ ~HasNext(p) /\ p.curTranslation.id # <<>> /\ ~ret'.nilpo)
             => StoredIn(ret'.po, p.curContext, p.curTranslation)
          /\ (pc = "Run" /\ HasNext(p) /\ NextKind \notin {"msgctxt", "msgid"})
             => p'.po = p.po]_vars

\* C28: for a loaded domain, Locale.Get and Locale.GetD return what Po.Get
\* returns on the domain's catalog, and Locale.GetC and Locale.GetDC what
\* Po.GetC returns.
C28_SingularAgrees ==
    [][(lcall.op = "none" /\ lcall'.op # "none" /\ lcall'.dom \in DOMAIN domains)
       => /\ lcall'.op \in {"Get", "GetD"}
             => lcall'.r = PoGet(domains[lcall'.dom], lcall'.str, lcall'.as)
          /\ lcall'.op \in {"GetC", "GetDC"}
             => lcall'.r = PoGetC(domains[lcall'.dom], lcall'.str, lcall'.ctx, lcall'.as)]_vars

\* C31: every iteration of Run's loop moves the read position forward and
\* never past the end of the buffer, and hands control back to the loop (or,
\* in strict mode, returns the line's error); when no line is left the last
\* commit and the header post-processing run, once: the pending entry is
\* cleared, two newlines are appended to the raw headers, Parse returns, and
\* the parser's state changes no more.
C31_ScanTerminates ==
    [][/\ (pc = "Run" /\ HasNext(p))
          => /\ p'.pos > p.pos
             /\ p'.pos <= Len(p.buf)
             /\ p'.buf = p.buf
             /\ pc' \in {"Run", "done"}
             /\ pc' = "done" => p.strict /\ ret'.err
       /\ (pc = "Run" /\ ~HasNext(p))
          => /\ pc' = "done"
             /\ p'.pos = p.pos
             /\ p'.curTranslation = newTranslation
             /\ p'.rawHeaders = p.rawHeaders \o <<NL, NL>>
       /\ pc = "done" => (pc' = "done" /\ p' = p /\ ret' = ret)]_vars

\* C32: every Locale that AddLocale created has every registered domain
\* loaded; an AddLocale that fails to load a registered domain returns an
\* error and leaves the set without the locale; an AddLocale for a name that
\* is in the set returns nil and leaves the set and the Locale as they were.
C32_SetConsistent ==
    /\ [](\A l \in DOMAIN lset.locales :
             ~lset.locales[l].given => lset.domains \subseteq lset.locales[l].doms)
    /\ [][(scall.op = "none" /\ scall'.op = "AddLocale")
          => /\ scall'.err
                => /\ lset' = lset
                   /\ scall'.l \notin DOMAIN lset'.locales
                   /\ \E dom \in lset.domains : ~findPO(src, scall'.l, dom).ok
             /\ scall'.l \in DOMAIN lset.locales => ~scall'.err /\ lset' = lset
             /\ (~scall'.err /\ scall'.l \notin DOMAIN lset.locales)
                => /\ scall'.l \in DOMAIN lset'.locales
                   /\ lset'.locales[scall'.l].doms = lset.domains]_vars

====
